---- MODULE Spec2Model ----
(***************************************************************************)
(* Model of GoogleMapsAPIScraper (src/src/scraper.py): the pagination and  *)
(* retry loop of scrape_reviews, the single-shot scrape_place, and the     *)
(* per-field extraction of _parse_review.                                  *)
(*                                                                         *)
(* Conventions.  Python's None / "missing" is the empty sequence <<>> and  *)
(* a present value v is <<v>>.  Text that a regular expression scans is a  *)
(* sequence of one-character strings; other text is an atomic string.      *)
(* Floats are held in thousandths (4.0 is 4000).                           *)
(* The output file and the writer never fail; requests.get and the         *)
(* response parsing of _get_api_response fail nondeterministically.        *)
(***************************************************************************)
EXTENDS Integers, Sequences, FiniteSets, TLC

\* ------------------------------------------------------------------ bounds
MaxPages == 2   \* largest ceil(n_reviews / 10) a call asks for
MaxNodes == 1   \* most review nodes in one response
MaxChildren == 3   \* most children of a generated review text block

\* ------------------------------------------------------- program constants
default_n_retries == 3

\* ---------------------------------------------------------- general helpers
None == <<>>
Some(v) == <<v>>

Digits == {"0", "1", "2", "3", "4", "5", "6", "7", "8", "9"}
HexDigits == Digits \cup {"a", "b", "c", "d", "e", "f", "A", "B", "C", "D", "E", "F"}

DigitVal(c) ==
    CASE c = "0" -> 0 [] c = "1" -> 1 [] c = "2" -> 2 [] c = "3" -> 3
      [] c = "4" -> 4 [] c = "5" -> 5 [] c = "6" -> 6 [] c = "7" -> 7
      [] c = "8" -> 8 [] c = "9" -> 9

\* The end of the maximal run of characters of class cls starting at s[i]
\* (i itself when s[i] is not in cls): what a greedy cls* consumes.
RECURSIVE RunEnd(_, _, _)
RunEnd(s, i, cls) ==
    IF i <= Len(s) /\ s[i] \in cls THEN RunEnd(s, i + 1, cls) ELSE i

\* s[i..j-1]
Slice(s, i, j) == [k \in 1..(j - i) |-> s[i + k - 1]]

\* int() of a digit string
RECURSIVE IntOf(_)
IntOf(s) == IF s = <<>> THEN 0 ELSE 10 * IntOf(Slice(s, 1, Len(s))) + DigitVal(s[Len(s)])

\* ------------------------------------------------------------- URL parsing
\* re.findall("(?<=place/).*?(?=/)", url): the matches, leftmost first.  A
\* match starts right after "place/" and runs lazily to the next "/".
PlaceMarker == <<"p", "l", "a", "c", "e", "/">>

PrecededByPlace(url, i) ==
    i > Len(PlaceMarker) /\ Slice(url, i - Len(PlaceMarker), i) = PlaceMarker

UrlNameMatchAt(url, i) ==
    /\ i <= Len(url) + 1
    /\ PrecededByPlace(url, i)
    /\ \E j \in i..Len(url) : url[j] = "/"

url_name_matches(url) == {i \in 1..(Len(url) + 1) : UrlNameMatchAt(url, i)}

\* "0[xX][0-9a-fA-F]+:0[xX][0-9a-fA-F]+" anchored at i: the end of the match
\* (exclusive), or 0 when there is none.  ":" is no hex digit, so the greedy
\* runs need no backtracking.
HalfIdEnd(url, i) ==
    IF i + 2 <= Len(url) /\ url[i] = "0" /\ url[i + 1] \in {"x", "X"}
       /\ url[i + 2] \in HexDigits
    THEN RunEnd(url, i + 2, HexDigits)
    ELSE 0

FeatureIdEnd(url, i) ==
    LET a == HalfIdEnd(url, i)
    IN  IF a # 0 /\ a <= Len(url) /\ url[a] = ":" THEN HalfIdEnd(url, a + 1) ELSE 0

feature_id_matches(url) == {i \in 1..Len(url) : FeatureIdEnd(url, i) # 0}

Min(S) == CHOOSE x \in S : \A y \in S : x <= y

\* Mutant: a url without identifier is let through
parse_url_raises_never(url) == FALSE

\* _parse_url_to_feature_id: findall(...)[0]; IndexError when nothing matches
parse_url_raises(url) == feature_id_matches(url) = {}

_parse_url_to_feature_id(url) ==
    LET i == Min(feature_id_matches(url))
    IN  Slice(url, i, FeatureIdEnd(url, i))

\* ------------------------------------------------------ rating label regex
\* re.sub(",", ".", rating_text)
CommaToPeriod(s) == [k \in 1..Len(s) |-> IF s[k] = "," THEN "." ELSE s[k]]

\* "[0-9]+[.][0-9]*" anchored at i: the end of the match (exclusive) or 0.
\* The greedy digit run must be followed by a period; giving digits back
\* cannot help, the character after a shorter run being a digit.
NumEnd(s, i) ==
    IF i <= Len(s) /\ s[i] \in Digits
    THEN LET e == RunEnd(s, i, Digits)
         IN  IF e <= Len(s) /\ s[e] = "." THEN RunEnd(s, e + 1, Digits) ELSE 0
    ELSE 0

\* re.findall("[0-9]+[.][0-9]*", s) from position i on: the matches, leftmost
\* first, non-overlapping.
RECURSIVE FindNums(_, _)
FindNums(s, i) ==
    IF i > Len(s) THEN <<>>
    ELSE IF NumEnd(s, i) # 0
         THEN <<Slice(s, i, NumEnd(s, i))>> \o FindNums(s, NumEnd(s, i))
         ELSE FindNums(s, i + 1)

\* float("d+.d*") in thousandths (labels carry at most three decimals)
FloatOf(m) ==
    LET dot  == RunEnd(m, 1, Digits)
        frac == Slice(m, dot + 1, Len(m) + 1)
        pad  == frac \o [k \in 1..(3 - Len(frac)) |-> "0"]
    IN  1000 * IntOf(Slice(m, 1, dot)) + IntOf(Slice(pad, 1, 4))

\* ------------------------------------------------------- review text block
\* A text block is the sequence of its children.  A child is a text fragment
\* (tag = FALSE, strings = <<s>>, s = "" for a whitespace-only fragment) or an
\* element (tag = TRUE) with or without a class attribute, strings being the
\* text fragments inside it.
RECURSIVE stripped_strings(_)
stripped_strings(block) ==
    IF block = <<>> THEN <<>>
    ELSE SelectSeq(Head(block).strings, LAMBDA x : x # "") \o stripped_strings(Tail(block))

\* The loop of _parse_review_text over zip(contents, stripped_strings),
\* from pair i on: the strings added to text before the break.
RECURSIVE TextLoop(_, _, _)
TextLoop(block, strs, i) ==
    IF i > Len(block) \/ i > Len(strs) THEN <<>>
    ELSE IF block[i].tag /\ block[i].class THEN <<>>
    ELSE <<strs[i]>> \o TextLoop(block, strs, i + 1)

\* The text is held as the sequence of the strings joined by single spaces.
_parse_review_text(block) == TextLoop(block, stripped_strings(block), 1)

\* ------------------------------------------------------------ review nodes
\* What _parse_review reads of a review node.  isNone: the node is None
\* (response_soup.find matched nothing), so every review.find raises.
\*   rating      <<>> no element, <<None>> element without aria-label,
\*               <<Some(label)>> the label
\*   review_link <<>> no element, <<None>> no href, <<Some(tokens)>> the href
\*               as a sequence of tokens, among them "postId=" and "&"
\*   user_node   <<>> or <<[href, guide, phrases]>>, phrases the pairs
\*               (number, the word stem the lookahead finds after it) of
\*               its text
ReviewUnits == {"review", "comentario"}
PhotoUnits  == {"photo", "foto"}

NoneNode ==
    [isNone |-> TRUE, full_text |-> None, expandable |-> None, rating |-> None,
     other_ratings |-> None, relative_date |-> None, user_name |-> None,
     user_node |-> None, review_link |-> None, likes |-> None,
     response |-> None, response_date |-> None, trip |-> None]

\* review_default_result of src/config.py: every field missing,
\* user_is_local_guide false, errors the list object shared by every copy.
review_default_result(errors) ==
    [token |-> None, review_id |-> None, retrieval_date |-> None,
     rating |-> None, rating_max |-> None, relative_date |-> None,
     likes |-> None, other_ratings |-> None, trip_type_travel_group |-> None,
     user_name |-> None, user_is_local_guide |-> FALSE, user_reviews |-> None,
     user_photos |-> None, user_url |-> None, text |-> None,
     response_text |-> None, response_relative_date |-> None,
     errors |-> errors]

\* Mutant: the description is not appended
_handle_review_exception_silent(result, name) == result

\* _handle_review_exception: one description appended to result["errors"]
_handle_review_exception(result, name) ==
    [result EXCEPT !.errors = Append(@, name)]

\* Each extractor is a try block: <name>_raises is the condition under
\* which the block raises, parse_<name> what the block and its except
\* clause leave in result.

\* review.find raises AttributeError on None; Tag.find and
\* _parse_review_text do not raise
text_raises(review) == review.isNone

parse_text(result, review) ==
    IF text_raises(review) THEN _handle_review_exception(result, "text")
    ELSE LET text_block == IF review.full_text # None THEN review.full_text
                           ELSE review.expandable
         IN  IF text_block # None
             THEN [result EXCEPT !.text = Some(_parse_review_text(text_block[1]))]
             ELSE result

\* The numbers of the label; <<>> when there is no label to scan
rating_numbers(review) ==
    IF review.isNone \/ review.rating = None \/ review.rating[1] = None THEN <<>>
    ELSE FindNums(CommaToPeriod(review.rating[1][1]), 1)

\* None.get (no element), re.sub on None (no aria-label), rating[0] or
\* rating[1] out of range
rating_raises(review) == Len(rating_numbers(review)) < 2

\* result["rating"] is assigned before rating[1] is read
parse_rating(result, review) ==
    LET rating == rating_numbers(review)
        r1 == IF Len(rating) >= 1
              THEN [result EXCEPT !.rating = Some(FloatOf(rating[1]))] ELSE result
    IN  IF rating_raises(review) THEN _handle_review_exception(r1, "rating")
        ELSE [r1 EXCEPT !.rating_max = Some(FloatOf(rating[2]))]

other_ratings_raises(review) == review.isNone

parse_other_ratings(result, review) ==
    IF other_ratings_raises(review) THEN _handle_review_exception(result, "other_ratings")
    ELSE IF review.other_ratings # None
         THEN [result EXCEPT !.other_ratings = review.other_ratings]
         ELSE result

relative_date_raises(review) == review.isNone \/ review.relative_date = None

parse_relative_date(result, review) ==
    IF relative_date_raises(review) THEN _handle_review_exception(result, "relative_date")
    ELSE [result EXCEPT !.relative_date = review.relative_date]

user_name_raises(review) == review.isNone \/ review.user_name = None

parse_user_name(result, review) ==
    IF user_name_raises(review) THEN _handle_review_exception(result, "user_name")
    ELSE [result EXCEPT !.user_name = review.user_name]

\* re.findall("[Uuma0-9.,]+(?= <unit>)", text): the numbers followed by a
\* word of units, in order
NumbersBefore(phrases, units) ==
    LET hits == SelectSeq(phrases, LAMBDA p : p.unit \in units)
    IN  [k \in 1..Len(hits) |-> hits[k].num]

user_data_raises(review) == review.isNone

parse_user_data(result, review) ==
    IF user_data_raises(review) THEN _handle_review_exception(result, "user_data")
    ELSE IF review.user_node = None THEN result
    ELSE LET user_node    == review.user_node[1]
             user_reviews == NumbersBefore(user_node.phrases, ReviewUnits)
             user_photos  == NumbersBefore(user_node.phrases, PhotoUnits)
         IN  [result EXCEPT
                 !.user_url = user_node.href,
                 !.user_is_local_guide = user_node.guide,
                 !.user_reviews = IF Len(user_reviews) > 0 THEN Some(user_reviews[1]) ELSE @,
                 !.user_photos = IF Len(user_photos) > 0 THEN Some(user_photos[1]) ELSE @]

\* re.findall("(?<=postId=).*?(?=&)", href): the first match, as the tokens
\* between the first "postId=" that an "&" follows and the nearest such "&"
PostIdStarts(href) ==
    {i \in 1..Len(href) : href[i] = "postId=" /\ \E j \in (i + 1)..Len(href) : href[j] = "&"}

PostIdOf(href) ==
    LET i == Min(PostIdStarts(href))
        j == Min({k \in (i + 1)..Len(href) : href[k] = "&"})
    IN  Slice(href, i + 1, j)

\* None.get (no link), findall on None (no href), [0] of no match
review_id_raises(review) ==
    \/ review.isNone
    \/ review.review_link = None
    \/ review.review_link[1] = None
    \/ PostIdStarts(review.review_link[1][1]) = {}

parse_review_id(result, review) ==
    IF review_id_raises(review) THEN _handle_review_exception(result, "review_id")
    ELSE [result EXCEPT !.review_id = Some(PostIdOf(review.review_link[1][1]))]

\* int(text) raises ValueError unless the text is a number
likes_raises(review) ==
    \/ review.isNone
    \/ /\ review.likes # None
       /\ LET text == review.likes[1]
          IN  text = <<>> \/ \E k \in 1..Len(text) : text[k] \notin Digits

parse_likes(result, review) ==
    IF likes_raises(review) THEN _handle_review_exception(result, "likes")
    ELSE IF review.likes = None THEN result
    ELSE [result EXCEPT !.likes = Some(IntOf(review.likes[1]))]

response_raises(review) == review.isNone

parse_response(result, review) ==
    IF response_raises(review) THEN _handle_review_exception(result, "response")
    ELSE [result EXCEPT
             !.response_text = IF review.response # None
                               THEN Some(_parse_review_text(review.response[1])) ELSE @,
             !.response_relative_date = IF review.response_date # None
                                        THEN review.response_date ELSE @]

trip_type_travel_group_raises(review) == review.isNone

parse_trip_type_travel_group(result, review) ==
    IF trip_type_travel_group_raises(review)
    THEN _handle_review_exception(result, "trip_type_travel_group")
    ELSE IF review.trip # None
         THEN [result EXCEPT !.trip_type_travel_group = review.trip]
         ELSE result

\* The try blocks of _parse_review in source order
ExtractorNames ==
    <<"text", "rating", "other_ratings", "relative_date", "user_name", "user_data",
      "review_id", "likes", "response", "trip_type_travel_group">>

Extractor(k, result, review) ==
    CASE k = 1 -> parse_text(result, review)
      [] k = 2 -> parse_rating(result, review)
      [] k = 3 -> parse_other_ratings(result, review)
      [] k = 4 -> parse_relative_date(result, review)
      [] k = 5 -> parse_user_name(result, review)
      [] k = 6 -> parse_user_data(result, review)
      [] k = 7 -> parse_review_id(result, review)
      [] k = 8 -> parse_likes(result, review)
      [] k = 9 -> parse_response(result, review)
      [] k = 10 -> parse_trip_type_travel_group(result, review)

ExtractorRaises(k, review) ==
    CASE k = 1 -> text_raises(review)
      [] k = 2 -> rating_raises(review)
      [] k = 3 -> other_ratings_raises(review)
      [] k = 4 -> relative_date_raises(review)
      [] k = 5 -> user_name_raises(review)
      [] k = 6 -> user_data_raises(review)
      [] k = 7 -> review_id_raises(review)
      [] k = 8 -> likes_raises(review)
      [] k = 9 -> response_raises(review)
      [] k = 10 -> trip_type_travel_group_raises(review)

\* The fields each try block assigns
ExtractorFields(k) ==
    CASE k = 1 -> {"text"}
      [] k = 2 -> {"rating", "rating_max"}
      [] k = 3 -> {"other_ratings"}
      [] k = 4 -> {"relative_date"}
      [] k = 5 -> {"user_name"}
      [] k = 6 -> {"user_url", "user_is_local_guide", "user_reviews", "user_photos"}
      [] k = 7 -> {"review_id"}
      [] k = 8 -> {"likes"}
      [] k = 9 -> {"response_text", "response_relative_date"}
      [] k = 10 -> {"trip_type_travel_group"}

\* The try blocks 1..k, one after the other
RECURSIVE RunExtractors(_, _, _)
RunExtractors(k, result, review) ==
    IF k = 0 THEN result
    ELSE Extractor(k, RunExtractors(k - 1, result, review), review)

\* Line 292
stamp_retrieval_date(result) == [result EXCEPT !.retrieval_date = Some("now")]

\* _parse_review: the ten extractors in source order on a shallow copy of
\* review_default_result, then the timestamp.  errors is the content of the
\* shared errors list when the call starts.
_parse_review(review, errors) ==
    stamp_retrieval_date(
        RunExtractors(Len(ExtractorNames), review_default_result(errors), review))

\* ------------------------------------------------------------ place pages
\* What _parse_place reads of a response: each element's text, or <<>>.
\* float(text): digits, optionally a period and digits
IsFloatText(t) ==
    LET e == RunEnd(t, 1, Digits)
    IN  /\ e > 1
        /\ \/ e = Len(t) + 1
           \/ t[e] = "." /\ RunEnd(t, e + 1, Digits) = Len(t) + 1

FloatText(t) == IF RunEnd(t, 1, Digits) = Len(t) + 1 THEN 1000 * IntOf(t) ELSE FloatOf(t)

\* re.sub("[.]|,| reviews| comentarios", "", text), the unit word being one
\* element of the text
StripCount(t) == SelectSeq(t, LAMBDA c : c \notin {".", ",", " reviews", " comentarios"})

IsIntText(t) == t # <<>> /\ \A k \in 1..Len(t) : t[k] \in Digits

metadata_default ==
    [feature_id |-> None, url |-> None, place_name |-> None, address |-> None,
     overall_rating |-> None, n_reviews |-> None, topics |-> None,
     retrieval_date |-> None]

_parse_place(response) ==
    LET m0 == metadata_default
        m1 == IF response.place_name # None
              THEN [m0 EXCEPT !.place_name = response.place_name] ELSE m0
        m2 == IF response.address # None
              THEN [m1 EXCEPT !.address = response.address] ELSE m1
        m3 == IF response.overall_rating # None
                 /\ IsFloatText(CommaToPeriod(response.overall_rating[1]))
              THEN [m2 EXCEPT !.overall_rating =
                        Some(FloatText(CommaToPeriod(response.overall_rating[1])))]
              ELSE m2
        m4 == IF response.n_reviews # None /\ IsIntText(StripCount(response.n_reviews[1]))
              THEN [m3 EXCEPT !.n_reviews = Some(IntOf(StripCount(response.n_reviews[1])))]
              ELSE m3
        m5 == IF response.topics # None THEN [m4 EXCEPT !.topics = response.topics] ELSE m4
    IN  [m5 EXCEPT !.retrieval_date = Some("now")]

\* ------------------------------------------------------------------ inputs
UrlGood   == <<"m", "a", "p", "s", "/", "p", "l", "a", "c", "e", "/", "B", "a", "r", "/", "d", "a", "t", "a", "=", "0", "x", "9", "c", ":", "0", "x", "1", "F", "?", "h", "l">>
UrlNoId   == <<"m", "a", "p", "s", "/", "p", "l", "a", "c", "e", "/", "B", "a", "r", "/", "d", "a", "t", "a", "=", "0", "x", "9", "c", ":", "1", "F">>
UrlNoName == <<"m", "a", "p", "s", "?", "c", "i", "d", "=", "0", "x", "9", "c", ":", "0", "x", "1", "F">>
UrlPlain  == <<"m", "a", "p", "s", "/", "s", "e", "a", "r", "c", "h", "/", "B", "a", "r">>
Urls == {UrlGood, UrlNoId, UrlNoName, UrlPlain}

\* "4,5 de 5,0"
LabelTwo  == <<"4", ",", "5", " ", "d", "e", " ", "5", ",", "0">>
\* "4,0 de un maximo de 5 estrellas"
LabelSpec == <<"4", ",", "0", " ", "d", "e", " ", "u", "n", " ", "m", "a", "x", "i", "m", "o", " ", "d", "e", " ", "5", " ", "e", "s", "t", "r", "e", "l", "l", "a", "s">>

TextChild(s) == [tag |-> FALSE, class |-> FALSE, strings |-> <<s>>]
ElemChild(class, strings) == [tag |-> TRUE, class |-> class, strings |-> strings]

GoodNode ==
    [isNone |-> FALSE,
     full_text |-> Some(<<TextChild("great"), ElemChild(TRUE, <<"more">>)>>),
     expandable |-> None,
     rating |-> Some(Some(LabelTwo)),
     other_ratings |-> Some(<<"Food", "5">>),
     relative_date |-> Some("2 weeks ago"),
     user_name |-> Some("Ana"),
     user_node |-> Some([href |-> Some("/contrib/1"), guide |-> TRUE,
                         phrases |-> <<[num |-> "12", unit |-> "review"],
                                       [num |-> "3", unit |-> "photo"]>>]),
     review_link |-> Some(Some(<<"/r?", "postId=", "R1", "&", "hl">>)),
     likes |-> Some(<<"1", "2">>),
     response |-> Some(<<TextChild("thanks")>>),
     response_date |-> Some("1 week ago"),
     trip |-> None]

\* A node in another locale: one decimal number in the label, no permalink
\* parameter, a non-numeric likes text
DriftNode ==
    [isNone |-> FALSE,
     full_text |-> None,
     expandable |-> Some(<<TextChild("bueno")>>),
     rating |-> Some(Some(LabelSpec)),
     other_ratings |-> None,
     relative_date |-> Some("hace 2 semanas"),
     user_name |-> None,
     user_node |-> None,
     review_link |-> Some(Some(<<"/r?", "hl">>)),
     likes |-> Some(<<"x">>),
     response |-> None,
     response_date |-> None,
     trip |-> Some(<<"Vacaciones">>)]

\* The nodes the responses of the pagination model are made of
NodeChoices == {NoneNode, DriftNode}

RECURSIVE SeqsUpTo(_, _)
SeqsUpTo(S, n) ==
    IF n = 0 THEN {<<>>}
    ELSE LET shorter == SeqsUpTo(S, n - 1)
         IN  shorter \cup {Append(q, x) : q \in {t \in shorter : Len(t) = n - 1}, x \in S}

Counts == {9, 10}
Tokens == {"", "tB"}
\* The token argument; its value decides no branch, the termination test
\* being reached only after a fetch has reassigned it
InitTokens == {"tA"}

\* What a successful _get_api_response returns: the review nodes, the
\* review count and the next-page token the response carries
Pages == [review_count : Counts, next_token : Tokens, nodes : SeqsUpTo(NodeChoices, MaxNodes)]

PlacePages ==
    {[place_name |-> Some("Bar"), address |-> Some("Rua 1"),
      overall_rating |-> Some(<<"4", ",", "5">>),
      n_reviews |-> Some(<<"1", ".", "2", "0", "3", " comentarios">>),
      topics |-> Some(<<"preco", "12">>)],
     [place_name |-> None, address |-> None, overall_rating |-> Some(<<"-">>),
      n_reviews |-> None, topics |-> None]}

\* math.ceil(n_reviews / 10)
Ceil10(n) == -((-n) \div 10)

\* The requested counts: none, less than a page, one page, and the least
\* count that asks for MaxPages pages
NReviewsChoices == {0, 1, 10, 10 * MaxPages - 9}

\* -------------------------------------------------------------------- state
VARIABLES
    op,             \* the method called: "scrape_reviews" or "scrape_place"
    url,            \* its url argument
    n_reviews,      \* its n_reviews argument
    n_retries,      \* self.n_retries
    pc,             \* the position in the method
    exc,            \* the exception the call ended with, "" while there is none
    token,          \* the token argument, reassigned by every successful fetch
    i,              \* the for variable: <<>> until the first iteration binds it
    n,              \* the retries left in the while loop
    reviews_soup,   \* <<>> until the first successful fetch binds it
    review_count,   \* <<>> until the first successful fetch binds it
    idx,            \* the position of the for loop over reviews_soup
    review,         \* the for variable of that loop: <<>> or <<node>>
    result,         \* the record in hand between _parse_review and results.append
    results,        \* the list scrape_reviews returns
    j,              \* the review counter
    errors_list,    \* the list object review_default_result["errors"] holds
    sink,           \* the rows handed to writer.writerow, in order
    flushed,        \* how many of them file.flush() has pushed out
    failure,        \* what the fetch being handled raised, "" outside the except clause
    trace           \* the fetches, sleeps, writes and flushes so far, in order

vars == <<op, url, n_reviews, n_retries, pc, exc, token, i, n, reviews_soup,
          review_count, idx, review, result, results, j, errors_list, sink,
          flushed, failure, trace>>

Event(ev, tok, cnt, next) ==
    [ev |-> ev, i |-> IF i = None THEN -1 ELSE i[1], tok |-> tok, cnt |-> cnt, next |-> next]

Init ==
    /\ op \in {"scrape_reviews", "scrape_place"}
    /\ url \in Urls
    /\ n_reviews \in IF op = "scrape_reviews" THEN NReviewsChoices ELSE {0}
    /\ n_retries \in 0..default_n_retries
    /\ token \in IF op = "scrape_reviews" THEN InitTokens ELSE {""}
    /\ pc = "start"
    /\ exc = ""
    /\ i = None
    /\ n = 0
    /\ reviews_soup = None
    /\ review_count = None
    /\ idx = 0
    /\ review = None
    /\ result = None
    /\ results = <<>>
    /\ j = 0
    /\ errors_list = <<>>
    /\ sink = <<>>
    /\ flushed = 0
    /\ failure = ""
    /\ trace = <<>>

Raise(what) == pc' = "raised" /\ exc' = what

\* ------------------------------------------------------------------ actions

\* Lines 334-339 and 400-404: the two findall(...)[0] on the url
Begin ==
    /\ pc = "start"
    /\ IF url_name_matches(url) = {} THEN Raise("IndexError:url_name")
       ELSE IF parse_url_raises(url) THEN Raise("IndexError:feature_id")
       ELSE /\ pc' = IF op = "scrape_reviews" THEN "for" ELSE "place_fetch"
            /\ exc' = exc
    /\ UNCHANGED <<op, url, n_reviews, n_retries, token, i, n, reviews_soup,
                   review_count, idx, result, results, j, errors_list, sink,
                   flushed, trace,
                   failure, review>>

\* Line 344
n_requests == Ceil10(n_reviews)

\* Lines 345-347: the next value of range(n_requests), or the end of the loop
ForNext ==
    /\ pc = "for"
    /\ LET nxt == IF i = None THEN 0 ELSE i[1] + 1
       IN  IF nxt < n_requests
           THEN i' = Some(nxt) /\ n' = n_retries /\ pc' = "while"
           ELSE pc' = "finish" /\ UNCHANGED <<i, n>>
    /\ UNCHANGED <<op, url, n_reviews, n_retries, exc, token, reviews_soup,
                   review_count, idx, result, results, j, errors_list, sink,
                   flushed, trace,
                   failure, review>>

\* Mutant: the next-page token of the response is not kept
FetchOk_stale_token ==
    /\ pc = "while"
    /\ n > 0
    /\ \E page \in Pages :
          /\ reviews_soup' = Some(page.nodes)
          /\ review_count' = Some(page.review_count)
          /\ trace' = Append(trace, Event("fetch_ok", token, page.review_count, page.next_token))
    /\ pc' = "parse"
    /\ idx' = 1
    /\ UNCHANGED <<op, url, n_reviews, n_retries, exc, token, i, n, result, results, j,
                   errors_list, sink, flushed, failure, review>>

\* Lines 348-356: a fetch that returns; the tuple assignment binds
\* reviews_soup, review_count and token together
FetchOk ==
    /\ pc = "while"
    /\ n > 0
    /\ \E page \in Pages :
          /\ reviews_soup' = Some(page.nodes)
          /\ review_count' = Some(page.review_count)
          /\ token' = page.next_token
          /\ trace' = Append(trace, Event("fetch_ok", token, page.review_count, page.next_token))
    /\ pc' = "parse"
    /\ idx' = 1
    /\ UNCHANGED <<op, url, n_reviews, n_retries, exc, i, n, result, results, j,
                   errors_list, sink, flushed,
                   failure, review>>

\* What _get_api_response raises: "fetch_fail" the request or the trimming
\* of the body, "fetch_nometa" the [0] of line 98 on a response without the
\* count/token node
FetchFailures == {"fetch_fail", "fetch_nometa"}

\* Lines 348-359: a fetch that raises; nothing is assigned
FetchFail ==
    /\ pc = "while"
    /\ n > 0
    /\ failure' \in FetchFailures
    /\ trace' = Append(trace, Event("fetch_fail", token, 0, ""))
    /\ pc' = "except"
    /\ UNCHANGED <<op, url, n_reviews, n_retries, exc, token, i, n, reviews_soup,
                   review_count, idx, result, results, j, errors_list, sink, flushed, review>>

\* Mutant: the sleep does not use up a retry
RetrySleep_no_decrement ==
    /\ pc = "except"
    /\ trace' = Append(trace, Event("retry_sleep", token, 0, ""))
    /\ failure' = ""
    /\ pc' = "while"
    /\ UNCHANGED <<op, url, n_reviews, n_retries, exc, token, i, n, reviews_soup,
                   review_count, idx, result, results, j, errors_list, sink, flushed,
                   review>>

\* Lines 360-362
RetrySleep ==
    /\ pc = "except"
    /\ trace' = Append(trace, Event("retry_sleep", token, 0, ""))
    /\ n' = n - 1
    /\ failure' = ""
    /\ pc' = "while"
    /\ UNCHANGED <<op, url, n_reviews, n_retries, exc, token, i, reviews_soup,
                   review_count, idx, result, results, j, errors_list, sink, flushed, review>>

\* Line 348: the while loop ends without a break
RetriesExhausted ==
    /\ pc = "while"
    /\ n <= 0
    /\ pc' = "parse"
    /\ idx' = 1
    /\ UNCHANGED <<op, url, n_reviews, n_retries, exc, token, i, n, reviews_soup,
                   review_count, result, results, j, errors_list, sink, flushed, trace,
                   failure, review>>

\* Lines 364-368 and 376-378: the next review of reviews_soup is parsed and
\* stamped.  An unbound reviews_soup raises inside the try and is logged.
\* The append of _handle_review_exception shows in every record copied from
\* review_default_result, the errors list being shared.
ParseReview ==
    /\ pc = "parse"
    /\ IF reviews_soup = None
       THEN pc' = "check" /\ UNCHANGED <<review, result, results, errors_list>>
       ELSE IF idx <= Len(reviews_soup[1])
            THEN LET r == [_parse_review(reviews_soup[1][idx], errors_list)
                              EXCEPT !.token = Some(token)]
                 IN  /\ review' = Some(reviews_soup[1][idx])
                     /\ result' = Some(r)
                     /\ errors_list' = r.errors
                     /\ results' = [k \in 1..Len(results) |->
                                       [results[k] EXCEPT !.errors = r.errors]]
                     /\ pc' = "write"
            ELSE pc' = "check" /\ UNCHANGED <<review, result, results, errors_list>>
    /\ UNCHANGED <<op, url, n_reviews, n_retries, exc, token, i, n, reviews_soup,
                   review_count, idx, j, sink, flushed, trace,
                   failure>>

\* Line 370
WriteRow ==
    /\ pc = "write"
    /\ sink' = Append(sink, result[1])
    /\ trace' = Append(trace, Event("write", result[1].token[1], 0, ""))
    /\ pc' = "flush"
    /\ UNCHANGED <<op, url, n_reviews, n_retries, exc, token, i, n, reviews_soup,
                   review_count, idx, result, results, j, errors_list, flushed,
                   failure, review>>

\* Mutant: the row is appended and counted without file.flush()
Flush_unflushed ==
    /\ pc = "flush"
    /\ results' = Append(results, result[1])
    /\ j' = j + 1
    /\ idx' = idx + 1
    /\ result' = None
    /\ pc' = "parse"
    /\ UNCHANGED <<op, url, n_reviews, n_retries, exc, token, i, n, reviews_soup,
                   review_count, errors_list, sink, flushed, failure, review, trace>>

\* Lines 371-375
Flush ==
    /\ pc = "flush"
    /\ flushed' = Len(sink)
    /\ trace' = Append(trace, Event("flush", token, 0, ""))
    /\ results' = Append(results, result[1])
    /\ j' = j + 1
    /\ idx' = idx + 1
    /\ result' = None
    /\ pc' = "parse"
    /\ UNCHANGED <<op, url, n_reviews, n_retries, exc, token, i, n, reviews_soup,
                   review_count, errors_list, sink,
                   failure, review>>

\* Mutant: both conditions are required
limit_reached_both(count, tok) == count < 10 /\ tok = ""

\* Mutant: a full page ends the loop too
limit_reached_full(count, tok) == count <= 10 \/ tok = ""

\* Line 380
limit_reached(count, tok) == count < 10 \/ tok = ""

\* Lines 380-382: reading an unbound review_count raises UnboundLocalError
\* outside every try
Check ==
    /\ pc = "check"
    /\ IF review_count = None THEN Raise("UnboundLocalError:review_count")
       ELSE /\ pc' = IF limit_reached(review_count[1], token) THEN "finish" ELSE "sleep"
            /\ exc' = exc
    /\ UNCHANGED <<op, url, n_reviews, n_retries, token, i, n, reviews_soup,
                   review_count, idx, result, results, j, errors_list, sink,
                   flushed, trace,
                   failure, review>>

\* The end of an iteration without the sleep of line 385
IntervalSleep_skipped ==
    /\ pc = "sleep"
    /\ pc' = "for"
    /\ UNCHANGED <<op, url, n_reviews, n_retries, exc, token, i, n, reviews_soup,
                   review_count, idx, result, results, j, errors_list, sink, flushed,
                   failure, review, trace>>

\* Line 385
IntervalSleep ==
    /\ pc = "sleep"
    /\ trace' = Append(trace, Event("interval_sleep", token, 0, ""))
    /\ pc' = "for"
    /\ UNCHANGED <<op, url, n_reviews, n_retries, exc, token, i, n, reviews_soup,
                   review_count, idx, result, results, j, errors_list, sink, flushed,
                   failure, review>>

\* Lines 387-391: the log line reads i, unbound when the loop never ran
Finish ==
    /\ pc = "finish"
    /\ IF i = None THEN Raise("UnboundLocalError:i")
       ELSE pc' = "done" /\ exc' = exc
    /\ UNCHANGED <<op, url, n_reviews, n_retries, token, i, n, reviews_soup,
                   review_count, idx, result, results, j, errors_list, sink,
                   flushed, trace,
                   failure, review>>

\* Lines 407-413: scrape_place fetches once, outside any try
PlaceFetchOk ==
    /\ pc = "place_fetch"
    /\ \E page \in PlacePages :
          result' = Some([_parse_place(page) EXCEPT
                             !.feature_id = Some(_parse_url_to_feature_id(url)),
                             !.url = Some(url)])
    /\ trace' = Append(trace, Event("fetch_ok", "", 0, ""))
    /\ pc' = "place_write"
    /\ UNCHANGED <<op, url, n_reviews, n_retries, exc, token, i, n, reviews_soup,
                   review_count, idx, results, j, errors_list, sink, flushed,
                   failure, review>>

PlaceFetchFail ==
    /\ pc = "place_fetch"
    /\ failure' \in FetchFailures
    /\ trace' = Append(trace, Event("fetch_fail", "", 0, ""))
    /\ Raise(failure')
    /\ UNCHANGED <<op, url, n_reviews, n_retries, token, i, n, reviews_soup,
                   review_count, idx, result, results, j, errors_list, sink, flushed, review>>

\* Line 415
PlaceWrite ==
    /\ pc = "place_write"
    /\ sink' = Append(sink, result[1])
    /\ trace' = Append(trace, Event("write", "", 0, ""))
    /\ pc' = "place_flush"
    /\ UNCHANGED <<op, url, n_reviews, n_retries, exc, token, i, n, reviews_soup,
                   review_count, idx, result, results, j, errors_list, flushed,
                   failure, review>>

\* Lines 416-418
PlaceFlush ==
    /\ pc = "place_flush"
    /\ flushed' = Len(sink)
    /\ trace' = Append(trace, Event("flush", "", 0, ""))
    /\ pc' = "done"
    /\ UNCHANGED <<op, url, n_reviews, n_retries, exc, token, i, n, reviews_soup,
                   review_count, idx, result, results, j, errors_list, sink,
                   failure, review>>

Next ==
    \/ Begin
    \/ ForNext
    \/ FetchOk
    \/ FetchFail
    \/ RetrySleep
    \/ RetriesExhausted
    \/ ParseReview
    \/ WriteRow
    \/ Flush
    \/ Check
    \/ IntervalSleep
    \/ Finish
    \/ PlaceFetchOk
    \/ PlaceFetchFail
    \/ PlaceWrite
    \/ PlaceFlush

Spec == Init /\ [][Next]_vars

\* ------------------------------------------- _parse_review, block by block
\* _parse_review alone, on every node of ParseNodes, one try block a step.
\* idx is the number of the next block.
\* The children a generated text block is made of: a text fragment, a
\* whitespace-only fragment, an element with a class and text inside, an
\* element without a class and text inside, an empty element (<br>)
ChildKinds ==
    {TextChild("a"), TextChild(""), ElemChild(TRUE, <<"x">>),
     ElemChild(FALSE, <<"b">>), ElemChild(FALSE, <<>>)}

TextBlocks == SeqsUpTo(ChildKinds, MaxChildren)

ParseNodes ==
    {NoneNode} \cup
    {[GoodNode EXCEPT !.full_text = Some(b)] : b \in TextBlocks} \cup
    {[GoodNode EXCEPT !.full_text = t[1], !.expandable = t[2], !.rating = r,
                      !.relative_date = d, !.user_name = u, !.review_link = l,
                      !.likes = k] :
        t \in {<<GoodNode.full_text, None>>, <<None, DriftNode.expandable>>, <<None, None>>},
        r \in {None, Some(None), Some(Some(LabelTwo)), Some(Some(LabelSpec)),
               Some(Some(<<"n", "/", "a">>))},
        d \in {None, GoodNode.relative_date},
        u \in {None, GoodNode.user_name},
        l \in {None, Some(None), GoodNode.review_link, DriftNode.review_link},
        k \in {None, GoodNode.likes, DriftNode.likes}}

ParseInit ==
    /\ op = "_parse_review"
    /\ url = <<>>
    /\ n_reviews = 0
    /\ n_retries = 0
    /\ pc = "extract"
    /\ exc = ""
    /\ token = ""
    /\ i = None
    /\ n = 0
    /\ reviews_soup = None
    /\ review_count = None
    /\ idx = 1
    /\ review \in {Some(node) : node \in ParseNodes}
    /\ errors_list = <<>>
    /\ result = Some(review_default_result(errors_list))
    /\ results = <<>>
    /\ j = 0
    /\ sink = <<>>
    /\ flushed = 0
    /\ failure = ""
    /\ trace = <<>>

\* One try block of lines 193-289
Extract ==
    /\ pc = "extract"
    /\ idx <= Len(ExtractorNames)
    /\ result' = Some(Extractor(idx, result[1], review[1]))
    /\ errors_list' = result'[1].errors
    /\ idx' = idx + 1
    /\ UNCHANGED <<op, url, n_reviews, n_retries, pc, exc, token, i, n, reviews_soup,
                   review_count, review, results, j, sink, flushed, failure, trace>>

\* Lines 291-294
Stamp ==
    /\ pc = "extract"
    /\ idx > Len(ExtractorNames)
    /\ result' = Some(stamp_retrieval_date(result[1]))
    /\ pc' = "parsed"
    /\ UNCHANGED <<op, url, n_reviews, n_retries, exc, token, i, n, reviews_soup,
                   review_count, idx, review, results, j, errors_list, sink, flushed,
                   failure, trace>>

ParseNext == Extract \/ Stamp

ParseSpec == ParseInit /\ [][ParseNext]_vars

\* ------------------------------------------------------------------ claims
Reviews == op = "scrape_reviews"

\* The page iterations started so far
Iterations == IF i = None THEN 0 ELSE i[1] + 1

IsFetch(e) == e.ev \in {"fetch_ok", "fetch_fail"}

\* A successful fetch whose response reports the end of the reviews
ReportsLimit(e) == e.ev = "fetch_ok" /\ (e.cnt < 10 \/ e.next = "")

\* Iteration k obtained a page
Obtained(k) == \E q \in 1..Len(trace) : trace[q].ev = "fetch_ok" /\ trace[q].i = k

\* The pagination loop is over: left by break or exhaustion, or by the
\* exception of the termination test or of the log line after it
LoopEnded ==
    \/ pc \in {"finish", "done"}
    \/ pc = "raised" /\ exc \in {"UnboundLocalError:review_count", "UnboundLocalError:i"}

\* C1: in scrape_reviews, once a successful fetch has reported a review
\* count below 10 or an empty next-page token, no further fetch is issued.
C1_NoFetchAfterLimit ==
    Reviews =>
        \A p \in 1..Len(trace) :
            ReportsLimit(trace[p]) => \A q \in (p + 1)..Len(trace) : ~IsFetch(trace[q])

\* C1 witness: more than one page was asked for, the first page reported
\* count 9 and an empty token, and the call returned after that one fetch.
C1_Witness ==
    /\ Reviews /\ pc = "done" /\ n_reviews > 10
    /\ Cardinality({p \in 1..Len(trace) : IsFetch(trace[p])}) = 1
    /\ \E p \in 1..Len(trace) : trace[p].ev = "fetch_ok" /\ trace[p].cnt = 9 /\ trace[p].next = ""

\* C2 as stated: whenever the pagination loop has ended, the last obtained
\* review count is below 10 or the last obtained token is empty.
C2_Original ==
    (Reviews /\ LoopEnded) =>
        (review_count # None /\ (review_count[1] < 10 \/ token = ""))

\* C2 amended: whenever the pagination loop has ended, the last obtained
\* review count is below 10 or the last obtained token is empty, or all
\* ceil(N/10) page iterations have run, or no page was ever obtained and the
\* termination test raised.
C2_EndsOnLimitOrBudget ==
    (Reviews /\ LoopEnded) =>
        \/ review_count # None /\ (review_count[1] < 10 \/ token = "")
        \/ Iterations = Ceil10(n_reviews)
        \/ review_count = None /\ exc = "UnboundLocalError:review_count"

\* C2 witness: the loop ended by running out of pages, the last page being
\* full and its token not empty.
C2_Witness ==
    /\ Reviews /\ pc = "done" /\ review_count = Some(10) /\ token # ""
    /\ Iterations = Ceil10(n_reviews)

\* C3 as stated: the page iterations never exceed ceil(N/10), and when the
\* loop is over they equal ceil(N/10) unless a page reported a review count
\* below 10 or an empty token (stated for a budget of at least one attempt
\* a page).
C3_Original ==
    (Reviews /\ n_retries > 0) =>
        /\ Iterations <= Ceil10(n_reviews)
        /\ LoopEnded =>
              \/ Iterations = Ceil10(n_reviews)
              \/ \E p \in 1..Len(trace) : ReportsLimit(trace[p])

\* The token sent by the latest successful fetch before trace position p
RequestTokenBefore(p) ==
    LET oks == {q \in 1..(p - 1) : trace[q].ev = "fetch_ok"}
    IN  trace[CHOOSE q \in oks : \A r \in oks : r <= q].tok

\* C4 as stated: every record written by scrape_reviews carries the token
\* that was sent in the request whose response contained its review node.
C4_Original ==
    Reviews =>
        \A p \in 1..Len(trace) :
            trace[p].ev = "write" => trace[p].tok = RequestTokenBefore(p)

\* C5 as stated: an iteration whose fetch attempts all failed writes no
\* record to the sink and appends none to the result list (every write and
\* every flush-and-append belongs to an iteration that obtained a page).
C5_Original ==
    Reviews =>
        \A p \in 1..Len(trace) :
            trace[p].ev \in {"write", "flush"} => Obtained(trace[p].i)

\* C6 as stated: exhausting the retry budget (of at least one attempt) on
\* a page never makes scrape_reviews raise, and with no page ever obtained
\* the loop ends and the call returns an empty list.
C6_Original ==
    (Reviews /\ n_retries > 0) =>
        /\ (pc = "raised" /\ i # None) => Obtained(i[1])
        /\ (LoopEnded /\ i # None /\ review_count = None) =>
              (pc # "raised" /\ results = <<>>)

\* Every try block of _parse_review raises on the node
AllRaise(node) == \A k \in 1..Len(ExtractorNames) : ExtractorRaises(k, node)

\* Every extracted field of the row holds its default
AllDefault(row) ==
    [row EXCEPT !.token = None, !.retrieval_date = None] = review_default_result(row.errors)

Count(seq, name) == Cardinality({p \in 1..Len(seq) : seq[p] = name})

\* C8 as stated: when a try block of _parse_review raises, the fields it
\* owns keep their default, exactly one description of it is appended to
\* errors, and every other block leaves in its fields what it leaves when
\* run alone on a fresh record.
C8_Original ==
    (op = "_parse_review" /\ pc = "parsed") =>
        LET node  == review[1]
            fresh == review_default_result(<<>>)
        IN  \A k \in 1..Len(ExtractorNames) :
                ExtractorRaises(k, node) =>
                    /\ \A f \in ExtractorFields(k) : result[1][f] = fresh[f]
                    /\ Count(result[1].errors, ExtractorNames[k])
                          = 1
                    /\ \A e \in 1..Len(ExtractorNames) \ {k} :
                          \A f \in ExtractorFields(e) :
                              result[1][f] = Extractor(e, fresh, node)[f]

\* C9 as stated: a fetch that failed for want of the count/token node is
\* followed by no retry sleep and no further fetch attempt.
C9_Original == [][failure = "fetch_nometa" => trace' = trace]_vars

\* C10: with a url that holds no feature identifier, scrape_reviews and
\* scrape_place end with the IndexError of the url parsing, no request
\* issued and nothing written.
C10_FailsBeforeNetwork ==
    (op \in {"scrape_reviews", "scrape_place"} /\ feature_id_matches(url) = {}) =>
        /\ trace = <<>>
        /\ sink = <<>>
        /\ \/ pc = "start"
           \/ pc = "raised" /\ exc \in {"IndexError:url_name", "IndexError:feature_id"}

\* C10 witness: a url with a place segment and no feature identifier made
\* the call raise at _parse_url_to_feature_id.
C10_Witness == pc = "raised" /\ exc = "IndexError:feature_id" /\ url = UrlNoId

\* C11: every row is flushed right after it is written: only between a
\* writerow and its flush is a row of the sink unflushed, so at every parse,
\* fetch and sleep point all rows written so far are flushed, and in the
\* order of events every write is followed at once by a flush.
C11_FlushedEagerly ==
    /\ pc \notin {"flush", "place_flush"} => flushed = Len(sink)
    /\ \A p \in 1..(Len(trace) - 1) : trace[p].ev = "write" => trace[p + 1].ev = "flush"

\* C11 witness: scrape_reviews stands at the sleep between two pages with
\* rows in the sink, all of them flushed.
C11_Witness == Reviews /\ pc = "sleep" /\ sink # <<>> /\ flushed = Len(sink)

\* C12 as stated: for a node whose rating label is "4,0 de un maximo de 5
\* estrellas" (the accent of the original left out, no regex reading it)
\* _parse_review yields rating 4.0 and rating_max 5.0 and records no rating
\* error.
C12_Original ==
    (op = "_parse_review" /\ pc = "parsed" /\ review[1].rating = Some(Some(LabelSpec))) =>
        /\ result[1].rating = Some(4000)
        /\ result[1].rating_max = Some(5000)
        /\ Count(result[1].errors, "rating") = 0

\* The token in force after a step: the next-page token a successful fetch
\* returned, the token the step ran with for any other step
TokenAfter(e) == IF e.ev = "fetch_ok" THEN e.next ELSE e.tok

\* C13: every fetch of scrape_reviews, failed or not, sends the next-page
\* token of the latest successful response, or the token argument while no
\* response has succeeded; the token variable holds that value throughout.
\* Step by step: the first step runs with the token argument, every later
\* step with the token in force after the step before it, which only a
\* successful fetch changes, and the token variable is the token in force
\* after the last step.
C13_TokenThreaded ==
    Reviews =>
        /\ trace # <<>> => trace[1].tok \in InitTokens
        /\ \A p \in 1..(Len(trace) - 1) : trace[p + 1].tok = TokenAfter(trace[p])
        /\ IF trace = <<>> THEN token \in InitTokens
           ELSE token = TokenAfter(trace[Len(trace)])

\* C13 witness: in the second page iteration an attempt failed and the
\* attempt after it sent the token the first page had returned.
C13_Witness ==
    /\ Reviews
    /\ \E p \in 1..Len(trace) : \E q \in (p + 1)..Len(trace) :
          /\ trace[p].ev = "fetch_fail" /\ trace[p].i = 1
          /\ IsFetch(trace[q]) /\ trace[q].i = 1 /\ trace[q].tok = "tB"

\* The fetch attempts of page iteration k
AttemptsOf(k) == {p \in 1..Len(trace) : IsFetch(trace[p]) /\ trace[p].i = k}

\* C14: a page iteration of scrape_reviews makes at most n_retries fetch
\* attempts and none after a successful one, and every failed attempt is
\* followed by exactly one retry sleep before anything else happens.
C14_BoundedRetries ==
    Reviews =>
        /\ \A k \in 0..(Iterations - 1) : Cardinality(AttemptsOf(k)) <= n_retries
        /\ \A p \in 1..Len(trace) :
              trace[p].ev = "fetch_ok" =>
                  \A q \in (p + 1)..Len(trace) :
                      IsFetch(trace[q]) => trace[q].i # trace[p].i
        /\ \A p \in 1..(Len(trace) - 1) :
              trace[p].ev = "fetch_fail" =>
                  /\ trace[p + 1].ev = "retry_sleep"
                  /\ p + 2 <= Len(trace) => trace[p + 2].ev # "retry_sleep"

\* C14 witness: with a budget of three, two attempts of a page failed, each
\* followed by its sleep, and the third succeeded.
C14_Witness ==
    /\ Reviews /\ n_retries = 3 /\ Len(trace) >= 5
    /\ trace[1].ev = "fetch_fail" /\ trace[2].ev = "retry_sleep"
    /\ trace[3].ev = "fetch_fail" /\ trace[4].ev = "retry_sleep"
    /\ trace[5].ev = "fetch_ok" /\ trace[5].i = 0

\* The descriptions the try blocks k..10 of _parse_review add for the node
RECURSIVE OwnErrorsFrom(_, _)
OwnErrorsFrom(k, node) ==
    IF k > Len(ExtractorNames) THEN <<>>
    ELSE (IF ExtractorRaises(k, node) THEN <<ExtractorNames[k]>> ELSE <<>>)
             \o OwnErrorsFrom(k + 1, node)

\* C15 as stated: the errors list of a row handed to the sink holds exactly
\* the failure descriptions of the extractors of its own node, in extraction
\* order, whatever failed for earlier records.
C15_Original ==
    (Reviews /\ pc = "flush") =>
        sink[Len(sink)].errors = OwnErrorsFrom(1, review[1])

\* C16 as stated: in both methods a failed fetch is followed by the backoff
\* sleep and another attempt, and the failure of a fetch leaves the method as
\* an exception only after n_retries attempts have failed.
C16_Original ==
    /\ \A p \in 1..(Len(trace) - 1) :
          trace[p].ev = "fetch_fail" => trace[p + 1].ev = "retry_sleep"
    /\ (pc = "raised" /\ exc \in FetchFailures) =>
          Cardinality({p \in 1..Len(trace) : trace[p].ev = "fetch_fail"}) >= n_retries

\* C17: in scrape_reviews the steps of page iteration k + 1, its fetch
\* attempts among them, are separated from those of iteration k by exactly
\* one request_interval sleep, the last step of iteration k: the first step
\* belongs to iteration 0, and from one step to the next the iteration goes
\* up by one after a request_interval sleep and stays the same after any
\* other step.  So between a fetch attempt of iteration k and one of
\* iteration k + 1 lies exactly one such sleep, made after every fetch, write
\* and flush of page k.
C17_OneIntervalSleep ==
    Reviews =>
        /\ trace # <<>> => trace[1].i = 0
        /\ \A p \in 1..(Len(trace) - 1) :
              trace[p + 1].i = IF trace[p].ev = "interval_sleep"
                               THEN trace[p].i + 1 ELSE trace[p].i

\* C17 witness: a second page is fetched after the first one was fetched,
\* written and flushed.
C17_Witness ==
    /\ Reviews
    /\ \E p, w, q \in 1..Len(trace) :
          /\ p < w /\ w < q
          /\ trace[p].ev = "fetch_ok" /\ trace[p].i = 0
          /\ trace[w].ev = "flush" /\ trace[w].i = 0
          /\ IsFetch(trace[q]) /\ trace[q].i = 1

\* C18 as stated: scrape_reviews with n_reviews = 0 on a url both regexes
\* match issues no fetch, writes no record, holds an empty result list and
\* does not raise.
C18_Original ==
    (Reviews /\ n_reviews = 0 /\ url_name_matches(url) # {} /\ ~parse_url_raises(url)) =>
        /\ trace = <<>>
        /\ sink = <<>>
        /\ results = <<>>
        /\ pc # "raised"

\* The direct text fragments of a block, whitespace-only ones left out, that
\* precede its first child element with a class attribute
RECURSIVE DirectTextBefore(_)
DirectTextBefore(block) ==
    IF block = <<>> THEN <<>>
    ELSE IF Head(block).tag /\ Head(block).class THEN <<>>
    ELSE (IF ~Head(block).tag /\ Head(block).strings # <<"">>
          THEN Head(block).strings ELSE <<>>)
             \o DirectTextBefore(Tail(block))

\* C19 as stated: the text _parse_review extracts from the review-full-text
\* block is exactly the block's direct text fragments before the first child
\* element with a class attribute; nothing inside or after that element, and
\* nothing inside a class-less element, appears in it.
C19_Original ==
    (op = "_parse_review" /\ pc = "parsed" /\ review[1].full_text # None) =>
        result[1].text = Some(DirectTextBefore(review[1].full_text[1]))
====
